---------------------------- MODULE Spec2Model ----------------------------
(***************************************************************************)
(* GET /api/v1/recipes of http-showdown: the asynchronous handler          *)
(* `homepage` (src/async_python/async_serial.py) and the synchronous       *)
(* handler `recipes_list` (src/sync_python/main.py).                       *)
(*                                                                         *)
(* A request is a slot that walks through its handler one database call    *)
(* at a time.  The database is a record of tables; every query is an       *)
(* operator over the tables as they are when the query runs.               *)
(*                                                                         *)
(* Abstractions.  Timestamps and position strings are totally ordered      *)
(* keys 1..MaxKey.  deleted_at IS NULL is the boolean ~deleted.  Of the    *)
(* opaque text columns one per entity is kept (quantity, title, text,      *)
(* action, emoji, name); the others are copied the same way.  Foreign keys *)
(* to core_myuser and core_team are enforced by the store.                 *)
(***************************************************************************)
EXTENDS Naturals, Sequences, FiniteSets

VARIABLES db, pc, req, held

vars == <<db, pc, req, held>>

------------------------------------------------------------------------------
(* Bounds *)

\* committed writes of other database clients during a run
MaxWrites == 2
\* positions and creation timestamps range over 1..MaxKey
MaxKey == 2
\* the clock read by datetime.now ranges over 1..MaxNow
MaxNow == 2

Keys == 1..MaxKey
Times == 1..MaxNow

Slots == {1, 2}
Impls == {"async", "sync"}
RecipeIds == {1, 2}
RowIds == {1, 2}
UserIds == {1, 2}
TeamIds == {1, 2}

\* django_content_type ids the recipe query joins on
CONTENT_TYPE_USER == 1
CONTENT_TYPE_TEAM == 20

\* `limit = 1`
limit == 1

\* the cookie stores a request may carry: no sessionid key, an empty one, the
\* token of user 1, the token of user 2, a token no session row has
CookieJars ==
    { [other |-> "x"] } \cup { [sessionid |-> v] : v \in {"", "a", "c", "zz"} }

------------------------------------------------------------------------------
(* Sequence helpers *)

Range(f) == { f[i] : i \in DOMAIN f }

\* every arrangement of the finite set S as a sequence without repetition
Perms(S) ==
    { p \in [ 1..Cardinality(S) -> S ] :
        \A i, j \in 1..Cardinality(S) : i # j => p[i] # p[j] }

\* ORDER BY position ASC: the store may return rows with equal positions in
\* any order
OrderByPositionAsc(S) ==
    { p \in Perms(S) :
        \A i, j \in DOMAIN p : i < j => p[i].position <= p[j].position }

\* ORDER BY created DESC: rows with equal timestamps in any order
OrderByCreatedDesc(S) ==
    { p \in Perms(S) :
        \A i, j \in DOMAIN p : i < j => p[i].created >= p[j].created }

------------------------------------------------------------------------------
(* The queries *)

\* SELECT user_id FROM user_sessions_session
\* WHERE expire_date > now_utc AND session_key = session LIMIT 1
SessionQuery(d, session, now_utc) ==
    { s \in d.user_sessions_session :
        s.expire_date > now_utc /\ s.session_key = session }

\* the subquery without `AND U0."is_active"`
ActiveTeamsAnyMembership(d, user_id) ==
    { m.team_id : m \in { u \in d.core_membership : u.user_id = user_id } }

\* the team ids of the subquery on core_membership
ActiveTeams(d, user_id) ==
    { m.team_id : m \in { u \in d.core_membership :
                            u.user_id = user_id /\ u.is_active } }

\* the WHERE clause of the recipe query over the two LEFT OUTER JOINs
RecipeVisible(d, r, user_id) ==
    /\ ~r.deleted
    /\ \/ /\ r.content_type_id = CONTENT_TYPE_USER
          /\ r.object_id \in d.core_myuser
          /\ r.object_id = user_id
       \/ /\ r.content_type_id = CONTENT_TYPE_TEAM
          /\ r.object_id \in d.core_team
          /\ r.object_id \in ActiveTeams(d, user_id)

\* the rows the recipe query can return before ORDER BY random() LIMIT
RecipeQuery(d, user_id) ==
    { r \in d.core_recipe : RecipeVisible(d, r, user_id) }

\* ORDER BY random() LIMIT n: any n of the rows (all of them when fewer)
RandomLimit(S, n) ==
    IF Cardinality(S) <= n
    THEN Perms(S)
    ELSE UNION { Perms(T) : T \in { U \in SUBSET S : Cardinality(U) = n } }

\* a fetch without its recipe_id condition
InRecipesUnfiltered(r, recipe_ids) == TRUE

\* recipe_id = any($1::int[])  /  recipe_id in %(recipe_ids)s
InRecipes(r, recipe_ids) == r.recipe_id \in Range(recipe_ids)

\* core_ingredient: deleted_at IS NULL AND recipe_id in ids ORDER BY position
IngredientQuery(d, recipe_ids) ==
    OrderByPositionAsc({ [id |-> r.id, position |-> r.position, quantity |-> r.quantity]
                 : r \in { x \in d.core_ingredient :
                             ~x.deleted /\ InRecipes(x, recipe_ids) } })

\* core_step: deleted_at IS NULL AND recipe_id in ids ORDER BY position
StepQuery(d, recipe_ids) ==
    OrderByPositionAsc({ [id |-> r.id, text |-> r.text, position |-> r.position,
                  recipe_id |-> r.recipe_id]
                 : r \in { x \in d.core_step :
                             ~x.deleted /\ InRecipes(x, recipe_ids) } })

\* core_section: deleted_at IS NULL AND recipe_id in ids ORDER BY position
SectionQuery(d, recipe_ids) ==
    OrderByPositionAsc({ [id |-> r.id, title |-> r.title, position |-> r.position,
                  recipe_id |-> r.recipe_id]
                 : r \in { x \in d.core_section :
                             ~x.deleted /\ InRecipes(x, recipe_ids) } })

\* core_note INNER JOIN core_myuser T4 ON created_by_id:
\* deleted_at IS NULL AND recipe_id in ids ORDER BY created DESC
NoteQuery(d, recipe_ids) ==
    OrderByCreatedDesc({ [id |-> r.id, text |-> r.text, created |-> r.created,
                   recipe_id |-> r.recipe_id, created_by_id |-> r.created_by_id]
                  : r \in { x \in d.core_note :
                              /\ ~x.deleted
                              /\ InRecipes(x, recipe_ids)
                              /\ x.created_by_id \in d.core_myuser } })

\* core_reaction INNER JOIN core_note ON note_id: the note's recipe_id in ids
\* (no deleted_at condition on either table) ORDER BY created DESC
ReactionQuery(d, recipe_ids) ==
    OrderByCreatedDesc({ [id |-> r.id, created |-> r.created, emoji |-> r.emoji,
                   created_by_id |-> r.created_by_id, note_id |-> r.note_id]
                  : r \in { x \in d.core_reaction :
                              \E n \in d.core_note :
                                  n.id = x.note_id /\ InRecipes(n, recipe_ids) } })

\* timeline_event: deleted_at IS NULL AND recipe_id in ids ORDER BY created DESC
TimelineQuery(d, recipe_ids) ==
    OrderByCreatedDesc({ [id |-> r.id, action |-> r.action, created |-> r.created,
                   created_by_id |-> r.created_by_id]
                  : r \in { x \in d.timeline_event :
                              ~x.deleted /\ InRecipes(x, recipe_ids) } })

------------------------------------------------------------------------------
(* Row-to-object mapping and serialization *)

Digit(d) == <<"0", "1", "2", "3", "4", "5", "6", "7", "8", "9">>[d + 1]

\* str(n) for a natural number
RECURSIVE IntToStr(_)
IntToStr(n) == IF n < 10 THEN Digit(n) ELSE IntToStr(n \div 10) \o Digit(n % 10)

\* a Python scalar as orjson writes it: the number 7, or the string "7"
PyInt(n) == [type |-> "int", repr |-> IntToStr(n)]
PyStr(s) == [type |-> "str", repr |-> s]

\* class Ingredient, built from an ingredient row
Ingredient(i) == [id |-> i.id, position |-> i.position, quantity |-> i.quantity]

\* class Section, built from a section row
Section(sec) == [id |-> sec.id, title |-> sec.title, position |-> sec.position]

\* class Step, built from a step row
Step(s) == [id |-> s.id, position |-> s.position, text |-> s.text]

\* class Reaction: created_by_id is declared int in the asynchronous module
\* and str in the synchronous one; the serializer is the pydantic v1 API
\* (obj.dict()), whose str field takes an int row value as str(value)
Reaction(impl, r) ==
    [id |-> r.id, emoji |-> r.emoji,
     created_by_id |-> IF impl = "async" THEN PyInt(r.created_by_id)
                       ELSE PyStr(IntToStr(r.created_by_id))]

\* one list for all notes instead of a list per note_id
reactionsUngrouped(impl, reaction_rows, note_id) ==
    [ i \in 1..Len(reaction_rows) |-> Reaction(impl, reaction_rows[i]) ]

\* reactions[note_id] of the defaultdict(list) filled in reaction_rows order
reactions(impl, reaction_rows, note_id) ==
    LET OfNote(r) == r.note_id = note_id
        rows == SelectSeq(reaction_rows, OfNote)
    IN  [ i \in 1..Len(rows) |-> Reaction(impl, rows[i]) ]

\* class Note, built from a note row and the grouped reactions
Note(impl, n, reaction_rows) ==
    [id |-> n.id, text |-> n.text, created_at |-> n.created,
     reactions |-> reactions(impl, reaction_rows, n.id)]

\* class TimelineEvent, built from a timeline row
TimelineEvent(t) ==
    [id |-> t.id, action |-> t.action, created_at |-> t.created,
     created_by_id |-> t.created_by_id]

\* the ingredients list: the ingredient rows, then the section rows
ingredients(ingredient_rows, section_rows) ==
    [ i \in 1..Len(ingredient_rows) |-> Ingredient(ingredient_rows[i]) ]
        \o [ i \in 1..Len(section_rows) |-> Section(section_rows[i]) ]

\* the steps list
steps(step_rows) == [ i \in 1..Len(step_rows) |-> Step(step_rows[i]) ]

\* the timeline list: the timeline rows, then the note rows
timeline(impl, timeline_rows, note_rows, reaction_rows) ==
    [ i \in 1..Len(timeline_rows) |-> TimelineEvent(timeline_rows[i]) ]
        \o [ i \in 1..Len(note_rows) |-> Note(impl, note_rows[i], reaction_rows) ]

\* class Recipe, the document of a 200 response
Recipe(impl, r) ==
    [id |-> r.recipes[1].id,
     name |-> r.recipes[1].name,
     ingredients |-> ingredients(r.ingredient_rows, r.section_rows),
     steps |-> steps(r.step_rows),
     timeline |-> timeline(impl, r.timeline_rows, r.note_rows, r.reaction_rows)]

------------------------------------------------------------------------------
(* Responses *)

EmptyBody == [empty |-> TRUE]
NotAuthed == [error |-> "not authed"]

NoResponse == [kind |-> "none", status_code |-> 0, body |-> EmptyBody, exc |-> ""]

\* a response object the handler returns
Response(status_code, body) ==
    [kind |-> "response", status_code |-> status_code, body |-> body, exc |-> ""]

\* an exception that leaves the handler: the host answers 500
Fault(exc) ==
    [kind |-> "fault", status_code |-> 500, body |-> EmptyBody, exc |-> exc]

\* starlette Response(content, status_code=200): HttpResponse and, through
\* JSONResponse, OrjsonResponse of the asynchronous module
StarletteResponse(body, kwargs) ==
    Response(IF "status_code" \in DOMAIN kwargs THEN kwargs.status_code ELSE 200,
             body)

\* django HttpResponse(content, content_type, status, reason, charset,
\* headers): the status keyword is `status`; any other keyword, status_code
\* included, is a TypeError raised by the constructor
DjangoResponse(body, kwargs) ==
    IF DOMAIN kwargs \subseteq {"content_type", "status"}
    THEN Response(IF "status" \in DOMAIN kwargs THEN kwargs.status ELSE 200, body)
    ELSE Fault("TypeError")

\* HttpResponse(status_code=401) of either module
HttpResponse(impl, kwargs) ==
    IF impl = "async" THEN StarletteResponse(EmptyBody, kwargs)
    ELSE DjangoResponse(EmptyBody, kwargs)

\* OrjsonResponse (asynchronous) / OrJsonResponse (synchronous): the
\* synchronous one sets content_type and hands **kwargs to HttpResponse
OrjsonResponse(impl, data, kwargs) ==
    IF impl = "async" THEN StarletteResponse(data, kwargs)
    ELSE DjangoResponse(data, [ k \in DOMAIN kwargs \cup {"content_type"} |->
                                  IF k = "content_type" /\ k \notin DOMAIN kwargs
                                  THEN "application/json" ELSE kwargs[k] ])

\* the keyword arguments of the two 401 returns, and of the final return
Kw401 == [status_code |-> 401]
KwNone == [ k \in {} |-> 0 ]

------------------------------------------------------------------------------
(* The database states the requests are run against *)

\* user_sessions_session: token "a" of user 1 and token "c" of user 2, both
\* expiring at MaxNow (valid while now_utc < MaxNow)
Sessions ==
    { [session_key |-> "a", user_id |-> 1, expire_date |-> MaxNow],
      [session_key |-> "c", user_id |-> 2, expire_date |-> MaxNow] }

RecipeRow(id, content_type_id, object_id, deleted) ==
    [id |-> id, name |-> "recipe", content_type_id |-> content_type_id,
     object_id |-> object_id, deleted |-> deleted]

\* core_recipe: every recipe owned by some user or team, deleted or not
RecipeTables ==
    { { RecipeRow(i, f[i][1], f[i][2], f[i][3]) : i \in RecipeIds } :
        f \in [ RecipeIds ->
                  {CONTENT_TYPE_USER, CONTENT_TYPE_TEAM} \X UserIds \X BOOLEAN ] }

\* core_membership: user 2 is an active member of team 2; user 1 is no
\* member of team 1, an active one, or an inactive one
MembershipTables ==
    { {[team_id |-> 2, user_id |-> 2, is_active |-> TRUE]} \cup m :
        m \in { {},
                {[team_id |-> 1, user_id |-> 1, is_active |-> TRUE]},
                {[team_id |-> 1, user_id |-> 1, is_active |-> FALSE]} } }

\* the rows of a table with a recipe_id: row 1 is a live row of recipe 1,
\* row 2 is of either recipe, deleted or not; keys are free
RelatedRows ==
    { { [id |-> 1, recipe_id |-> 1, key |-> k1, deleted |-> FALSE],
        [id |-> 2, recipe_id |-> r2, key |-> k2, deleted |-> d2] } :
        k1 \in Keys, k2 \in Keys, r2 \in RecipeIds, d2 \in BOOLEAN }

DefaultRows ==
    { [id |-> 1, recipe_id |-> 1, key |-> 1, deleted |-> FALSE],
      [id |-> 2, recipe_id |-> 2, key |-> MaxKey, deleted |-> FALSE] }

IngredientTable(rows) ==
    { [id |-> r.id, recipe_id |-> r.recipe_id, position |-> r.key,
       quantity |-> "q", deleted |-> r.deleted] : r \in rows }
SectionTable(rows) ==
    { [id |-> r.id, recipe_id |-> r.recipe_id, position |-> r.key,
       title |-> "t", deleted |-> r.deleted] : r \in rows }
StepTable(rows) ==
    { [id |-> r.id, recipe_id |-> r.recipe_id, position |-> r.key,
       text |-> "s", deleted |-> r.deleted] : r \in rows }
NoteTable(rows) ==
    { [id |-> r.id, recipe_id |-> r.recipe_id, created |-> r.key,
       text |-> "n", created_by_id |-> 1, deleted |-> r.deleted] : r \in rows }
EventTable(rows) ==
    { [id |-> r.id, recipe_id |-> r.recipe_id, created |-> r.key,
       action |-> "created", created_by_id |-> 1, deleted |-> r.deleted]
      : r \in rows }

\* core_reaction: two reactions, each on either note, created at any time
ReactionTables ==
    { { [id |-> 1, note_id |-> n1, created |-> k1, emoji |-> "e",
         created_by_id |-> 1],
        [id |-> 2, note_id |-> n2, created |-> k2, emoji |-> "e",
         created_by_id |-> 2] } :
        n1 \in RowIds, n2 \in RowIds, k1 \in Keys, k2 \in Keys }

DefaultReactions ==
    { [id |-> 1, note_id |-> 1, created |-> 1, emoji |-> "e", created_by_id |-> 1],
      [id |-> 2, note_id |-> 2, created |-> 1, emoji |-> "e", created_by_id |-> 2] }

\* recipe 1 owned by user 1, recipe 2 owned by team 1
SharedRecipes ==
    { RecipeRow(1, CONTENT_TYPE_USER, 1, FALSE),
      RecipeRow(2, CONTENT_TYPE_TEAM, 1, FALSE) }

SharedMembership ==
    { [team_id |-> 2, user_id |-> 2, is_active |-> TRUE],
      [team_id |-> 1, user_id |-> 1, is_active |-> TRUE] }

Database(recipe, membership, ingredient, section, step, note, reaction, event) ==
    [user_sessions_session |-> Sessions,
     core_myuser |-> UserIds,
     core_team |-> TeamIds,
     core_membership |-> membership,
     core_recipe |-> recipe,
     core_ingredient |-> IngredientTable(ingredient),
     core_section |-> SectionTable(section),
     core_step |-> StepTable(step),
     core_note |-> NoteTable(note),
     core_reaction |-> reaction,
     timeline_event |-> EventTable(event)]

DefaultDatabase ==
    Database(SharedRecipes, SharedMembership, DefaultRows, DefaultRows,
             DefaultRows, DefaultRows, DefaultReactions, DefaultRows)

\* ownership, membership and soft deletion of the recipes vary
OwnershipDatabases ==
    { Database(r, m, DefaultRows, DefaultRows, DefaultRows, DefaultRows,
               DefaultReactions, DefaultRows) :
        r \in RecipeTables, m \in MembershipTables }

\* the ingredients and the sections vary together
IngredientDatabases ==
    { Database(SharedRecipes, SharedMembership, i, s, DefaultRows, DefaultRows,
               DefaultReactions, DefaultRows) :
        i \in RelatedRows, s \in RelatedRows }

\* the steps vary
StepDatabases ==
    { Database(SharedRecipes, SharedMembership, DefaultRows, DefaultRows, s,
               DefaultRows, DefaultReactions, DefaultRows) : s \in RelatedRows }

\* the notes and the timeline events vary together
TimelineDatabases ==
    { Database(SharedRecipes, SharedMembership, DefaultRows, DefaultRows,
               DefaultRows, n, DefaultReactions, e) :
        n \in RelatedRows, e \in RelatedRows }

\* the notes and their reactions vary together
ReactionDatabases ==
    { Database(SharedRecipes, SharedMembership, DefaultRows, DefaultRows,
               DefaultRows, n, r, DefaultRows) :
        n \in RelatedRows, r \in ReactionTables }

Databases ==
    OwnershipDatabases \cup IngredientDatabases \cup StepDatabases
        \cup TimelineDatabases \cup ReactionDatabases

------------------------------------------------------------------------------
(* The handlers *)

\* the locals of a request that has not started; `seen` is history, not a
\* local: the database states the request's queries have read
NoRequest ==
    [impl |-> "async", cookies |-> [other |-> "x"], session |-> "",
     now_utc |-> 0, user_id |-> 0, recipes |-> <<>>, recipe_ids |-> <<>>,
     ingredient_rows |-> <<>>, step_rows |-> <<>>, section_rows |-> <<>>,
     note_rows |-> <<>>, reaction_rows |-> <<>>, timeline_rows |-> <<>>,
     queries |-> <<>>, seen |-> {}, acquires |-> 0, store_fault |-> FALSE,
     resp |-> NoResponse]

\* the positions inside `async with connection_pool.acquire()` /
\* `with connection.cursor()`
InScope ==
    {"set_time_zone", "session", "recipes", "ingredients", "steps", "sections",
     "notes", "reactions", "timeline"}

\* one request slot in use (slot 2 stays "off"), any database state
Init ==
    /\ db \in Databases
    /\ pc = [ s \in Slots |-> IF s = 1 THEN "idle" ELSE "off" ]
    /\ req = [ s \in Slots |-> NoRequest ]
    /\ held = 0

\* two requests in flight against one database
InitPool ==
    /\ db = DefaultDatabase
    /\ pc = [ s \in Slots |-> "idle" ]
    /\ req = [ s \in Slots |-> NoRequest ]
    /\ held = 0

\* the handler returns (or raises) outside the connection scope
Return(s, r, response) ==
    /\ pc' = [pc EXCEPT ![s] = "done"]
    /\ req' = [req EXCEPT ![s] = [r EXCEPT !.resp = response]]

\* a connection taken without the scope: nothing gives it back
ReleaseNever == held' = held

\* __aexit__ / __exit__ of the connection scope: the connection goes back
Release == held' = held - 1

\* the host routes a GET /api/v1/recipes to one of the two handlers
Request(s) ==
    /\ pc[s] = "idle"
    /\ \E impl \in Impls, cookies \in CookieJars :
          req' = [req EXCEPT ![s] = [NoRequest EXCEPT !.impl = impl,
                                                      !.cookies = cookies]]
    /\ pc' = [pc EXCEPT ![s] = "cookie"]
    /\ UNCHANGED <<db, held>>

\* what the first two statements of the handler end the request with:
\* request.cookies["sessionid"] is a KeyError without the key, and
\* `if not session` returns HttpResponse(status_code=401); NoResponse when
\* the handler goes on
CookieCheck(impl, cookies) ==
    IF "sessionid" \notin DOMAIN cookies THEN Fault("KeyError")
    ELSE IF cookies.sessionid = "" THEN HttpResponse(impl, Kw401)
    ELSE NoResponse

\* session = request.cookies["sessionid"]; if not session: return 401
ReadCookie(s) ==
    /\ pc[s] = "cookie"
    /\ LET r == req[s] IN
         IF CookieCheck(r.impl, r.cookies) # NoResponse
         THEN Return(s, r, CookieCheck(r.impl, r.cookies))
         ELSE /\ req' = [req EXCEPT ![s].session = r.cookies.sessionid]
              /\ pc' = [pc EXCEPT ![s] = "acquire"]
    /\ UNCHANGED <<db, held>>

\* async with connection_pool.acquire() as connection /
\* with connection.cursor() as conn
Acquire(s) ==
    /\ pc[s] = "acquire"
    /\ held' = held + 1
    /\ req' = [req EXCEPT ![s].acquires = @ + 1]
    /\ pc' = [pc EXCEPT ![s] = "set_time_zone"]
    /\ UNCHANGED db

\* execute("SET TIME ZONE 'UTC'"); now_utc = datetime.now(timezone.utc)
SetTimeZone(s) ==
    /\ pc[s] = "set_time_zone"
    /\ \E now \in Times :
          req' = [req EXCEPT ![s].now_utc = now,
                             ![s].queries = Append(@, "set_time_zone")]
    /\ pc' = [pc EXCEPT ![s] = "session"]
    /\ UNCHANGED <<db, held>>

\* the session query; without a row the handler returns 401 from inside the
\* connection scope
SessionLookup(s) ==
    /\ pc[s] = "session"
    /\ LET r == [req[s] EXCEPT !.queries = Append(@, "session"),
                               !.seen = @ \cup {db}]
           rows == SessionQuery(db, r.session, r.now_utc)
       IN  IF rows = {}
           THEN /\ Return(s, r, OrjsonResponse(r.impl, NotAuthed, Kw401))
                /\ Release
           ELSE /\ \E maybe_session \in rows :
                      req' = [req EXCEPT ![s] =
                                [r EXCEPT !.user_id = maybe_session.user_id]]
                /\ pc' = [pc EXCEPT ![s] = "recipes"]
                /\ UNCHANGED held
    /\ UNCHANGED db

\* the recipe query, recipe_ids = [r["id"] for r in recipes] and
\* recipe = recipes[0], an IndexError on an empty result
SelectRecipe(s) ==
    /\ pc[s] = "recipes"
    /\ \E recipes \in RandomLimit(RecipeQuery(db, req[s].user_id), limit) :
          LET r == [req[s] EXCEPT !.queries = Append(@, "recipes"),
                                  !.seen = @ \cup {db},
                                  !.recipes = recipes,
                                  !.recipe_ids = [ i \in 1..Len(recipes) |->
                                                     recipes[i].id ]]
          IN  IF recipes = <<>>
              THEN /\ Return(s, r, Fault("IndexError"))
                   /\ Release
              ELSE /\ req' = [req EXCEPT ![s] = r]
                   /\ pc' = [pc EXCEPT ![s] = "ingredients"]
                   /\ UNCHANGED held
    /\ UNCHANGED db

FetchIngredients(s) ==
    /\ pc[s] = "ingredients"
    /\ \E rows \in IngredientQuery(db, req[s].recipe_ids) :
          req' = [req EXCEPT ![s].ingredient_rows = rows,
                             ![s].queries = Append(@, "ingredients"),
                             ![s].seen = @ \cup {db}]
    /\ pc' = [pc EXCEPT ![s] = "steps"]
    /\ UNCHANGED <<db, held>>

FetchSteps(s) ==
    /\ pc[s] = "steps"
    /\ \E rows \in StepQuery(db, req[s].recipe_ids) :
          req' = [req EXCEPT ![s].step_rows = rows,
                             ![s].queries = Append(@, "steps"),
                             ![s].seen = @ \cup {db}]
    /\ pc' = [pc EXCEPT ![s] = "sections"]
    /\ UNCHANGED <<db, held>>

FetchSections(s) ==
    /\ pc[s] = "sections"
    /\ \E rows \in SectionQuery(db, req[s].recipe_ids) :
          req' = [req EXCEPT ![s].section_rows = rows,
                             ![s].queries = Append(@, "sections"),
                             ![s].seen = @ \cup {db}]
    /\ pc' = [pc EXCEPT ![s] = "notes"]
    /\ UNCHANGED <<db, held>>

FetchNotes(s) ==
    /\ pc[s] = "notes"
    /\ \E rows \in NoteQuery(db, req[s].recipe_ids) :
          req' = [req EXCEPT ![s].note_rows = rows,
                             ![s].queries = Append(@, "notes"),
                             ![s].seen = @ \cup {db}]
    /\ pc' = [pc EXCEPT ![s] = "reactions"]
    /\ UNCHANGED <<db, held>>

FetchReactions(s) ==
    /\ pc[s] = "reactions"
    /\ \E rows \in ReactionQuery(db, req[s].recipe_ids) :
          req' = [req EXCEPT ![s].reaction_rows = rows,
                             ![s].queries = Append(@, "reactions"),
                             ![s].seen = @ \cup {db}]
    /\ pc' = [pc EXCEPT ![s] = "timeline"]
    /\ UNCHANGED <<db, held>>

\* the last query; the connection scope ends after it
FetchTimeline(s) ==
    /\ pc[s] = "timeline"
    /\ \E rows \in TimelineQuery(db, req[s].recipe_ids) :
          req' = [req EXCEPT ![s].timeline_rows = rows,
                             ![s].queries = Append(@, "timeline"),
                             ![s].seen = @ \cup {db}]
    /\ pc' = [pc EXCEPT ![s] = "assemble"]
    /\ Release
    /\ UNCHANGED db

\* the mapping loops and return OrjsonResponse(Recipe(...))
Assemble(s) ==
    /\ pc[s] = "assemble"
    /\ Return(s, req[s],
              OrjsonResponse(req[s].impl, Recipe(req[s].impl, req[s]), KwNone))
    /\ UNCHANGED <<db, held>>

\* the host sends the response; the slot takes the next request
Deliver(s) ==
    /\ pc[s] = "done"
    /\ pc' = [pc EXCEPT ![s] = "idle"]
    /\ req' = [req EXCEPT ![s] = NoRequest]
    /\ UNCHANGED <<db, held>>

\* the store fails a statement (connection lost, statement error): the
\* driver's exception leaves the connection scope and the handler
QueryFault(s) ==
    /\ pc[s] \in InScope
    /\ Return(s, [req[s] EXCEPT !.store_fault = TRUE], Fault("DatabaseError"))
    /\ Release
    /\ UNCHANGED db

Next ==
    \E s \in Slots :
        \/ Request(s)
        \/ ReadCookie(s)
        \/ Acquire(s)
        \/ SetTimeZone(s)
        \/ SessionLookup(s)
        \/ SelectRecipe(s)
        \/ FetchIngredients(s)
        \/ FetchSteps(s)
        \/ FetchSections(s)
        \/ FetchNotes(s)
        \/ FetchReactions(s)
        \/ FetchTimeline(s)
        \/ Assemble(s)
        \/ Deliver(s)

NextPool == Next \/ \E s \in Slots : QueryFault(s)

\* one request at a time against a healthy store, over every database state
Spec == Init /\ [][Next]_vars

\* two concurrent requests; the store may fail any statement
SpecPool == InitPool /\ [][NextPool]_vars

------------------------------------------------------------------------------
(* Other clients of the database *)

\* the handlers open no transaction (no connection.transaction(), no
\* atomic()): each statement runs in autocommit and reads what is committed
\* when it runs, so another client's commit may fall between two statements

\* the tables with a deleted_at column
SoftDeletable ==
    {"core_recipe", "core_ingredient", "core_section", "core_step", "core_note",
     "timeline_event"}

\* the writes committed so far: soft-deleted rows and inserted reactions
Writes(d) ==
    Cardinality(UNION { { <<tb, x.id>> : x \in { y \in d[tb] : y.deleted } } :
                          tb \in SoftDeletable })
        + Cardinality({ x \in d.core_reaction : x.id \notin RowIds })

\* another client commits UPDATE <table> SET deleted_at = now() for one row
SoftDelete ==
    /\ Writes(db) < MaxWrites
    /\ \E tb \in SoftDeletable :
          \E x \in { y \in db[tb] : ~y.deleted } :
              db' = [db EXCEPT ![tb] = (@ \ {x}) \cup {[x EXCEPT !.deleted = TRUE]}]
    /\ UNCHANGED <<pc, req, held>>

\* another client commits INSERT INTO core_reaction for one of the notes
InsertReaction ==
    /\ Writes(db) < MaxWrites
    /\ \E n \in db.core_note, k \in Keys :
          LET id == 1 + Cardinality(db.core_reaction) IN
          db' = [db EXCEPT !.core_reaction =
                   @ \cup {[id |-> id, note_id |-> n.id, created |-> k,
                            emoji |-> "e", created_by_id |-> 1]}]
    /\ UNCHANGED <<pc, req, held>>

\* one request against the default database while other clients write
InitWriters ==
    /\ db = DefaultDatabase
    /\ pc = [ s \in Slots |-> IF s = 1 THEN "idle" ELSE "off" ]
    /\ req = [ s \in Slots |-> NoRequest ]
    /\ held = 0

NextWriters == Next \/ SoftDelete \/ InsertReaction

\* one request at a time while other clients commit writes
SpecWriters == InitWriters /\ [][NextWriters]_vars

------------------------------------------------------------------------------
(* Vocabulary of the properties *)

Done(s) == pc[s] = "done"

\* the request carries no session token: no sessionid cookie, or an empty one
NoToken(r) == "sessionid" \notin DOMAIN r.cookies \/ r.cookies.sessionid = ""

\* the session rows that authenticate the request at the time it read
ValidSessions(r) ==
    IF NoToken(r) THEN {}
    ELSE { x \in db.user_sessions_session :
             x.session_key = r.cookies.sessionid /\ x.expire_date > r.now_utc }

\* recipe row x may be shown to user u: not soft-deleted, and owned by u or by
\* a team in which u has an active membership
Eligible(x, u) ==
    /\ ~x.deleted
    /\ \/ x.content_type_id = CONTENT_TYPE_USER /\ x.object_id = u
       \/ /\ x.content_type_id = CONTENT_TYPE_TEAM
          /\ \E m \in db.core_membership :
                m.team_id = x.object_id /\ m.user_id = u /\ m.is_active

EligibleRecipes(u) == { x \in db.core_recipe : Eligible(x, u) }

Is200(r) == r.resp.kind = "response" /\ r.resp.status_code = 200

Is401NotAuthed(r) ==
    r.resp.kind = "response" /\ r.resp.status_code = 401 /\ r.resp.body = NotAuthed

DataQueries ==
    {"recipes", "ingredients", "steps", "sections", "notes", "reactions",
     "timeline"}

IsIngredient(x) == "quantity" \in DOMAIN x
IsSection(x) == "title" \in DOMAIN x
IsEvent(x) == "action" \in DOMAIN x
IsNote(x) == "reactions" \in DOMAIN x

\* the live rows of a table that belong to recipe id
LiveOf(table, id) == { x \in table : ~x.deleted /\ x.recipe_id = id }

\* how many items of seq satisfy Test
Count(seq, Test(_)) == Cardinality({ i \in DOMAIN seq : Test(seq[i]) })

------------------------------------------------------------------------------
(* C1 *)

\* C1: a request whose sessionid cookie is absent or empty ends with a 401
\* response whose body is {"error": "not authed"}, never with a fault.
C1_NoTokenIs401NotAuthed ==
    \A s \in Slots : Done(s) /\ NoToken(req[s]) => Is401NotAuthed(req[s])

(* C2 *)

\* C2: a request whose non-empty token matches no unexpired session row ends
\* with 401 and {"error": "not authed"}, the body a missing cookie gets too,
\* and has issued no recipe or related-data query.
C2_BadSessionIs401NotAuthed ==
    \A s \in Slots :
        Done(s) /\ ~NoToken(req[s]) /\ ValidSessions(req[s]) = {} =>
            /\ Is401NotAuthed(req[s])
            /\ req[s].resp.body = CookieCheck(req[s].impl, [other |-> "x"]).body
            /\ Range(req[s].queries) \cap DataQueries = {}

(* C3 *)

C4_NoRecipeIs404 ==
    \A s \in Slots :
        \A v \in ValidSessions(req[s]) :
            Done(s) /\ EligibleRecipes(v.user_id) = {} =>
                req[s].resp.kind = "response" /\ req[s].resp.status_code = 404

(* C5 *)

\* item maps a live row of table that belongs to recipe id
Backed(item, table, id) ==
    \E x \in table : x.id = item.id /\ ~x.deleted /\ x.recipe_id = id

\* C5: in a 200 response every Ingredient, Section, Step, Note and
\* TimelineEvent maps a row that is not soft-deleted and whose recipe id is
\* the response's id, and every Reaction nested in a Note is a reaction row
\* of that Note.
C5_ItemsBelongToRecipe ==
    \A s \in Slots :
        Done(s) /\ Is200(req[s]) =>
            LET b == req[s].resp.body IN
            /\ \A i \in DOMAIN b.ingredients :
                  LET x == b.ingredients[i] IN
                  \/ IsIngredient(x) /\ Backed(x, db.core_ingredient, b.id)
                  \/ IsSection(x) /\ Backed(x, db.core_section, b.id)
            /\ \A i \in DOMAIN b.steps : Backed(b.steps[i], db.core_step, b.id)
            /\ \A i \in DOMAIN b.timeline :
                  LET x == b.timeline[i] IN
                  \/ IsEvent(x) /\ Backed(x, db.timeline_event, b.id)
                  \/ /\ IsNote(x)
                     /\ Backed(x, db.core_note, b.id)
                     /\ \A k \in DOMAIN x.reactions :
                           \E y \in db.core_reaction :
                               y.id = x.reactions[k].id /\ y.note_id = x.id

\* a 200 whose lists are all non-empty, with a reaction in a note, while
\* every related table also holds a row that must stay out
C5_Witness ==
    \E s \in Slots :
        /\ Done(s) /\ Is200(req[s])
        /\ LET b == req[s].resp.body
               Out(table) == \E x \in table : x.deleted \/ x.recipe_id # b.id
           IN  /\ b.ingredients # <<>> /\ b.steps # <<>>
               /\ \E i \in DOMAIN b.timeline :
                     IsNote(b.timeline[i]) /\ b.timeline[i].reactions # <<>>
               /\ Out(db.core_ingredient) /\ Out(db.core_section)
               /\ Out(db.core_step) /\ Out(db.core_note)
               /\ Out(db.timeline_event)
               /\ \E y \in db.core_reaction :
                     \A i \in DOMAIN b.timeline : y.note_id # b.timeline[i].id

(* C6 *)

\* C6: in a 200 response `ingredients` holds every live Ingredient and
\* Section of the recipe exactly once and is sorted ascending by position
\* across both kinds.
C6_IngredientsSortedByPosition ==
    \A s \in Slots :
        Done(s) /\ Is200(req[s]) =>
            LET b == req[s].resp.body IN
            /\ \A x \in LiveOf(db.core_ingredient, b.id) :
                  LET Same(y) == IsIngredient(y) /\ y.id = x.id
                  IN  Count(b.ingredients, Same) = 1
            /\ \A x \in LiveOf(db.core_section, b.id) :
                  LET Same(y) == IsSection(y) /\ y.id = x.id
                  IN  Count(b.ingredients, Same) = 1
            /\ \A i, j \in DOMAIN b.ingredients :
                  i < j => b.ingredients[i].position <= b.ingredients[j].position

(* C7 *)

\* C7: in a 200 response `timeline` holds every live Note and TimelineEvent
\* of the recipe exactly once and is sorted descending by creation time
\* across both kinds.
C7_TimelineSortedByCreation ==
    \A s \in Slots :
        Done(s) /\ Is200(req[s]) =>
            LET b == req[s].resp.body IN
            /\ \A x \in LiveOf(db.core_note, b.id) :
                  LET Same(y) == IsNote(y) /\ y.id = x.id
                  IN  Count(b.timeline, Same) = 1
            /\ \A x \in LiveOf(db.timeline_event, b.id) :
                  LET Same(y) == IsEvent(y) /\ y.id = x.id
                  IN  Count(b.timeline, Same) = 1
            /\ \A i, j \in DOMAIN b.timeline :
                  i < j => b.timeline[i].created_at >= b.timeline[j].created_at

(* C8 *)

\* the ids of the fetched reaction rows of note id, in fetch order
FetchedReactionIds(r, id) ==
    LET OfNote(x) == x.note_id = id
        rows == SelectSeq(r.reaction_rows, OfNote)
    IN  [ k \in 1..Len(rows) |-> rows[k].id ]

\* C8: in a 200 response the reactions of every Note N are exactly the
\* fetched reactions whose note id is N.id, in fetch order (descending
\* creation time): the reaction rows of N, each once; a Note without
\* reactions has an empty list, and no reaction of a soft-deleted note is in
\* the response.
C8_ReactionsGroupedByNote ==
    \A s \in Slots :
        Done(s) /\ Is200(req[s]) =>
            LET b == req[s].resp.body IN
            \A i \in DOMAIN b.timeline :
                LET n == b.timeline[i] IN
                IsNote(n) =>
                    LET ids == [ k \in DOMAIN n.reactions |-> n.reactions[k].id ]
                        Created(id) ==
                            (CHOOSE y \in db.core_reaction : y.id = id).created
                    IN  /\ ids = FetchedReactionIds(req[s], n.id)
                        /\ Range(ids) =
                             { y.id : y \in { z \in db.core_reaction :
                                                z.note_id = n.id } }
                        /\ Len(ids) = Cardinality(Range(ids))
                        /\ \A k, l \in DOMAIN ids :
                              k < l => Created(ids[k]) >= Created(ids[l])
                        /\ \A y \in db.core_reaction :
                              (\E m \in db.core_note :
                                  m.id = y.note_id /\ m.deleted)
                                  => y.id \notin Range(ids)

\* a 200 with a Note that carries two reactions created at different times,
\* beside a Note of the same recipe that carries none
C8_Witness ==
    \E s \in Slots :
        /\ Done(s) /\ Is200(req[s])
        /\ LET tl == req[s].resp.body.timeline IN
           /\ \E i \in DOMAIN tl :
                 /\ IsNote(tl[i]) /\ Len(tl[i].reactions) = 2
                 /\ \E y, z \in db.core_reaction : y.created # z.created
           /\ \E i \in DOMAIN tl : IsNote(tl[i]) /\ tl[i].reactions = <<>>

\* a 200 for a recipe with a soft-deleted note whose reaction was fetched
C8_DeletedParentReached ==
    \E s \in Slots :
        /\ Done(s) /\ Is200(req[s])
        /\ \E k \in DOMAIN req[s].reaction_rows :
              \E m \in db.core_note :
                  m.id = req[s].reaction_rows[k].note_id /\ m.deleted

(* C9 *)

\* the inputs and the rows the store returned, without what the handler made
\* of them
Inputs(r) == [r EXCEPT !.impl = "", !.resp = NoResponse]

\* C9: the two handlers are functionally identical: given the same cookies,
\* the same clock and the same rows from the store, `homepage` and
\* `recipes_list` end with the same status code and the same body.
C9_HandlersAgree ==
    \A s, t \in Slots :
        /\ Done(s) /\ Done(t)
        /\ req[s].impl = "async" /\ req[t].impl = "sync"
        /\ ~req[s].store_fault /\ ~req[t].store_fault
        /\ Inputs(req[s]) = Inputs(req[t])
        => req[s].resp = req[t].resp

\* C9 on the success path alone: two 200 responses built from the same rows
\* are the same document (refuted by Reaction.created_by_id: 1 against "1")
C9_HandlersAgreeOn200 ==
    \A s, t \in Slots :
        /\ Done(s) /\ Done(t) /\ Is200(req[s]) /\ Is200(req[t])
        /\ req[s].impl = "async" /\ req[t].impl = "sync"
        /\ Inputs(req[s]) = Inputs(req[t])
        => req[s].resp = req[t].resp

(* C10 *)

InsideScope == { s \in Slots : pc[s] \in InScope }

\* C10 as stated: every request acquires exactly one connection, has given it
\* back when the handler ends, and the connections held are as many as the
\* requests inside the acquisition scope.
C10_EveryRequestAcquiresOne ==
    /\ held = Cardinality(InsideScope)
    /\ \A s \in Slots : Done(s) => req[s].acquires = 1

\* C10 amended: a request whose sessionid cookie is absent or empty ends
\* before the acquisition scope and acquires no connection; every other
\* request acquires exactly one; on every exit path the connection has been
\* given back when the handler ends, so the connections held are as many as
\* the requests inside the acquisition scope.
C10_ConnectionsHeldAreInScope ==
    /\ held = Cardinality(InsideScope)
    /\ \A s \in Slots :
          /\ req[s].acquires <= 1
          /\ Done(s) => req[s].acquires = IF NoToken(req[s]) THEN 0 ELSE 1

\* a request ended by a store fault has given its connection back while the
\* other request is still inside its scope
C10_Witness ==
    \E s, t \in Slots :
        /\ Done(s) /\ req[s].store_fault /\ req[s].acquires = 1
        /\ pc[t] \in InScope
        /\ held = 1

(* C11 *)

\* the locals of a run of the handler in which every query reads database
\* state d: the same session row found, then any result of each query
RunsOn(d, r) ==
    { [r EXCEPT !.recipes = rec, !.ingredient_rows = i, !.step_rows = st,
                !.section_rows = se, !.note_rows = n, !.reaction_rows = re,
                !.timeline_rows = tl] :
        rec \in { x \in RandomLimit(RecipeQuery(d, r.user_id), limit) : x # <<>> },
        i \in IngredientQuery(d, r.recipe_ids),
        st \in StepQuery(d, r.recipe_ids),
        se \in SectionQuery(d, r.recipe_ids),
        n \in NoteQuery(d, r.recipe_ids),
        re \in ReactionQuery(d, r.recipe_ids),
        tl \in TimelineQuery(d, r.recipe_ids) }

\* the 200 response of r is one the handler gives when all its queries read d
ProducibleFrom(d, r) ==
    /\ \E v \in SessionQuery(d, r.session, r.now_utc) : v.user_id = r.user_id
    /\ \E x \in RunsOn(d, r) :
          r.resp = OrjsonResponse(r.impl, Recipe(r.impl, x), KwNone)

\* C11: while other clients write, all queries of one request observe the
\* same database state: a 200 response equals the response that one of the
\* database states the request read would produce on its own.
C11_ResponseOfOneDatabaseState ==
    \A s \in Slots :
        Done(s) /\ Is200(req[s]) => \E d \in req[s].seen : ProducibleFrom(d, req[s])

\* a 200 built from queries that read more than one database state
C11_ReadsAcrossWrites ==
    \E s \in Slots :
        Done(s) /\ Is200(req[s]) /\ Cardinality(req[s].seen) > 1

==============================================================================
